---------------------------- MODULE Spec2Model ----------------------------
(***************************************************************************)
(* Polyglot Pal: the App component (src/unnamed/part_001) and the chat     *)
(* service (src/unnamed/part_000) as a state machine.                      *)
(*                                                                         *)
(* Every handler of the component (click, change, recognizer callback,     *)
(* timer callback, promise continuation) runs to completion and its state  *)
(* updates are committed before the next handler runs, so each handler is  *)
(* one action.  Text is a sequence of tokens: a transcript is a sequence   *)
(* of characters, a fixed string of the program is a one-token sequence.   *)
(*                                                                         *)
(* The platform speech recognizer is the environment.  It follows the Web  *)
(* Speech API: start() throws on an object that is started and has not     *)
(* ended; stop() stops listening and the object may still return a result  *)
(* from the audio it has; with continuous = false at most one final result *)
(* is returned per start(); an error event is followed by an end event.    *)
(***************************************************************************)
EXTENDS Integers, Sequences, FiniteSets, Bags, TLC

\* ---------------------------------------------------------------- bounds
MaxLog == 3
MaxPending == 2
MaxResults == 2
MaxOrphans == 1
MaxTimers == 1
MaxVoices == 3

\* ------------------------------------------------------------- constants
\* constants.ts: a locale code is kept as its subtags, "en-US" = <<"en","US">>
SUPPORTED_LANGUAGES ==
    << [code |-> <<"en", "US">>, name |-> "English",  dir |-> "ltr"],
       [code |-> <<"fr", "FR">>, name |-> "Francais", dir |-> "ltr"],
       [code |-> <<"ar", "SA">>, name |-> "Arabic",   dir |-> "rtl"] >>

LanguageOptions == { SUPPORTED_LANGUAGES[i] : i \in 1..Len(SUPPORTED_LANGUAGES) }

USER == "user"
MODEL == "model"

\* code.split('-')[0]
PrimarySubtag(code) == code[1]

\* the characters of the subtags that occur in locales
Spell ==
    [en |-> << "e", "n" >>, fr |-> << "f", "r" >>, ar |-> << "a", "r" >>,
     arz |-> << "a", "r", "z" >>, US |-> << "U", "S" >>, GB |-> << "G", "B" >>,
     FR |-> << "F", "R" >>, SA |-> << "S", "A" >>, EG |-> << "E", "G" >>]

\* the string of a locale, its subtags joined with "-"
RECURSIVE LocaleString(_)
LocaleString(locale) ==
    IF locale = << >> THEN << >>
    ELSE IF Len(locale) = 1 THEN Spell[Head(locale)]
    ELSE Spell[Head(locale)] \o << "-" >> \o LocaleString(Tail(locale))

\* String.prototype.startsWith
startsWith(string, prefix) ==
    /\ Len(prefix) <= Len(string)
    /\ SubSeq(string, 1, Len(prefix)) = prefix

\* SpeechSynthesisVoice.lang of the voices a platform may offer
VoiceLocales ==
    { << "en", "US" >>, << "en", "GB" >>, << "fr", "FR" >>, << "ar", "SA" >>,
      << "arz", "EG" >> }

\* window.speechSynthesis.getVoices(): the voices by their lang, in order
VoiceLists == UNION { [1..n -> VoiceLocales] : n \in 0..MaxVoices }

\* the voices of the platform the component runs on
PlatformVoices == << << "en", "GB" >>, << "en", "US" >>, << "fr", "FR" >> >>

\* null of the error state; a non-null error is a non-empty token sequence
NullError == << >>
NotSupportedError == << "Speech recognition is not supported in your browser." >>
MicrophoneError == << "Could not start microphone. Please check permissions." >>
NotInitializedError == << "Chat session not initialized. Call startChatSession first." >>
RecognitionError(code) == << "Speech recognition error: ", code >>

\* the text sendMessageToAI returns when the provider call fails
ProviderApology == << "Sorry, I encountered an error. Please try again." >>
\* the text processAIResponse appends when sendMessageToAI throws
ControllerApology == << "Sorry, I couldn't process that. Please try again." >>

\* ---------------------------------------------------------- environment
Whitespace == { " " }
\* the alternative-0 transcripts the recognizer can return for one result
Transcripts == { << " " >>, << "a" >> }
\* the texts the provider can reply with
Replies == { << "Bonjour" >> }
\* event.error of a recognizer error event
ErrorCodes == { "no-speech" }

\* SpeechRecognitionResultList, alternative 0 of each result
ResultLists ==
    UNION { [1..n -> [transcript : Transcripts, isFinal : BOOLEAN]] : n \in 1..MaxResults }

NoChat == [live |-> FALSE, systemInstruction |-> << >>, turns |-> 0]
\* a recognizer object that is not started
Inactive == "inactive"
\* null of recognitionRef.current
NoRecognizer == [state |-> "null", lang |-> << >>, acted |-> 0]

VARIABLES
    apiKey,            \* process.env.API_KEY is set
    hasRecognition,    \* window.SpeechRecognition || window.webkitSpeechRecognition
    speechSynthesis,   \* window.speechSynthesis: whether it exists, and its getVoices()
    ai,                \* part_000: ai is not null
    chat,              \* part_000: the active chat handle
    lifecycle,         \* "rendered" (before the effects), "mounted", "unmounted"
    escaped,           \* an exception left a handler of the component uncaught
    conversation,
    selectedLanguage,
    isRecording,
    isProcessing,
    error,
    docLang,           \* document.documentElement.lang
    docDir,            \* document.documentElement.dir
    recognitionRef,    \* recognitionRef.current: a recognizer object or NoRecognizer
    orphans,           \* the started recognizer objects recognitionRef has dropped
    timers,            \* retry timers set and not yet fired
    pending,           \* sendMessageToAI calls whose promise has not settled, each
                       \* with the instructions of the session it was sent to
    last,              \* the handler that ran last and the branch it took
    spoke              \* the speech output invoked by the last handler

vars == << apiKey, hasRecognition, speechSynthesis, ai, chat, lifecycle, escaped, conversation,
           selectedLanguage, isRecording, isProcessing, error, docLang, docDir,
           recognitionRef, orphans, timers, pending, last, spoke >>

NotSpoken == [invoked |-> FALSE, text |-> << >>, code |-> << >>, voice |-> 0]
\* the record of a handler that runs: which one, in which state the recognizer
\* object that called it was, the branch taken, the length of the log before
Last(op, state, outcome) ==
    [op |-> op, state |-> state, outcome |-> outcome, logBefore |-> Len(conversation)]


\* ------------------------------------------------------- pure functions
\* String.prototype.trim: drop leading and trailing whitespace
RECURSIVE TrimStart(_)
TrimStart(s) ==
    IF s = << >> THEN << >>
    ELSE IF Head(s) \in Whitespace THEN TrimStart(Tail(s)) ELSE s

RECURSIVE TrimEnd(_)
TrimEnd(s) ==
    IF s = << >> THEN << >>
    ELSE IF s[Len(s)] \in Whitespace THEN TrimEnd(SubSeq(s, 1, Len(s) - 1)) ELSE s

\* a handler that tests the transcript without trimming it
TrimOmitted(s) == s

Trim(s) == TrimEnd(TrimStart(s))

\* a string in a condition: the empty string is false
Truthy(s) == s # << >>

\* the transcripts joined with a space between them
RECURSIVE RunningTranscriptSpaced(_)
RunningTranscriptSpaced(results) ==
    IF results = << >> THEN << >>
    ELSE IF Len(results) = 1 THEN Head(results).transcript
    ELSE Head(results).transcript \o << " " >> \o RunningTranscriptSpaced(Tail(results))

\* Array.from(event.results).map(r => r[0]).map(r => r.transcript).join('')
RECURSIVE RunningTranscript(_)
RunningTranscript(results) ==
    IF results = << >> THEN << >>
    ELSE Head(results).transcript \o RunningTranscript(Tail(results))

\* the condition under which handleRecognitionResult acts on an event
ActsOn(results) == results[1].isFinal /\ Truthy(Trim(RunningTranscript(results)))

\* a recognizer whose passes go on after a final result
HasFinalContinuous(results) == FALSE

\* the event holds a final result, the only one its pass delivers
HasFinal(results) == \E i \in 1..Len(results) : results[i].isFinal

Message(role, text) == [role |-> role, text |-> text]

\* a log with the new message put in front of the others
PrependMessage(prev, message) == << message >> \o prev

\* setConversation(prev => [...prev, message])
AppendMessage(prev, message) == Append(prev, message)

\* instructions that name one language whatever language is asked for
getSystemInstructionFixed(languageName) == << "You are Poly", "English" >>

getSystemInstruction(languageName) == << "You are Poly", languageName >>

\* getAI throws when no client exists yet and the key is not set
getAIThrows == ~ai /\ ~apiKey

\* a handle that is given new instructions and keeps the turns it was sent
ReuseChat(languageName) ==
    [chat EXCEPT !.live = TRUE,
                 !.systemInstruction = getSystemInstruction(languageName)]

\* the handle startChatSession stores in chat: a new session that was sent
\* no message yet
NewChat(languageName) ==
    [live |-> TRUE, systemInstruction |-> getSystemInstruction(languageName),
     turns |-> 0]

\* chat.sendMessage({ message }) adds a turn to the session of the handle
SendOn(handle) == [handle EXCEPT !.turns = @ + 1]

\* the language of the render whose closures handleRecognitionResult keeps:
\* useCallback(..., []) returns the function of the first render, and with it
\* that render's processAIResponse, speak and selectedLanguage
ClosureLanguage == SUPPORTED_LANGUAGES[1]

\* Array.prototype.find over the locale strings of the voices from the n-th on:
\* the index of the first that equals the wanted string, 0 (undefined) if none
RECURSIVE FindEqual(_, _, _)
FindEqual(voices, wanted, n) ==
    IF n > Len(voices) THEN 0
    ELSE IF LocaleString(voices[n]) = wanted THEN n
    ELSE FindEqual(voices, wanted, n + 1)

\* the index of the first voice from the n-th on whose locale string starts
\* with the prefix, 0 (undefined) if none
RECURSIVE FindPrefix(_, _, _)
FindPrefix(voices, prefix, n) ==
    IF n > Len(voices) THEN 0
    ELSE IF startsWith(LocaleString(voices[n]), prefix) THEN n
    ELSE FindPrefix(voices, prefix, n + 1)

\* a choice of voice that does not look for the exact locale first
SelectVoiceByPrefix(voices, code) == FindPrefix(voices, Spell[PrimarySubtag(code)], 1)

\* utterance.voice as speak sets it, by the index of the voice in getVoices();
\* 0 when it is not set
SelectVoice(voices, code) ==
    LET voice == FindEqual(voices, LocaleString(code), 1) IN
    IF voice # 0 THEN voice
    ELSE FindPrefix(voices, Spell[PrimarySubtag(code)], 1)

\* speak(text) of the render with the given selectedLanguage: the utterance
\* handed to window.speechSynthesis.speak, none without speech synthesis
speak(text, language) ==
    IF ~speechSynthesis.supported THEN NotSpoken
    ELSE [invoked |-> TRUE, text |-> text, code |-> language.code,
          voice |-> SelectVoice(speechSynthesis.voices, language.code)]

\* what sendMessageToAI resolves to once chat.sendMessage has settled
sendMessageToAI(outcome, reply) == IF outcome = "ok" THEN reply ELSE ProviderApology

\* ------------------------------------------------------ recognizer objects
\* start() has been called on the object and its end event has not fired
Started(r) == r.state \in { "listening", "stopping", "ending" }

\* start() throws InvalidStateError on a started object
StartThrows == Started(recognitionRef)

\* recognitionRef.current?.start()
AfterStart(r) ==
    IF r = NoRecognizer THEN r ELSE [r EXCEPT !.state = "listening", !.acted = 0]

\* recognitionRef.current?.stop()
AfterStop(r) == IF r.state = "listening" THEN [r EXCEPT !.state = "stopping"] ELSE r

\* new SpeechRecognitionAPI() with lang, interimResults and continuous set
NewRecognizer(language) == [state |-> Inactive, lang |-> language.code, acted |-> 0]

\* the object recognitionRef drops lives on while it is started
CanCreate == Started(recognitionRef) => BagCardinality(orphans) < MaxOrphans

\* setupRecognition() of the render with the given selectedLanguage
setupRecognition(language, err) ==
    IF ~hasRecognition
    THEN /\ error' = NotSupportedError
         /\ UNCHANGED << recognitionRef, orphans >>
    ELSE /\ error' = err
         /\ recognitionRef' = NewRecognizer(language)
         /\ orphans' = IF Started(recognitionRef)
                       THEN orphans (+) SetToBag({ recognitionRef })
                       ELSE orphans

\* the objects that can deliver events
Sources ==
    { [current |-> TRUE, rec |-> recognitionRef] } \cup
    { [current |-> FALSE, rec |-> r] : r \in BagToSet(orphans) }

\* the source becomes the given object; a dropped object that ended is gone
Becomes(src, rec) ==
    IF src.current
    THEN /\ recognitionRef' = rec
         /\ UNCHANGED orphans
    ELSE /\ orphans' = IF rec.state = Inactive
                       THEN orphans (-) SetToBag({ src.rec })
                       ELSE (orphans (-) SetToBag({ src.rec })) (+) SetToBag({ rec })
         /\ UNCHANGED recognitionRef

\* the source moves to the given state; its pass is over once it is inactive
Moves(src, state) ==
    Becomes(src, [src.rec EXCEPT !.state = state,
                                 !.acted = IF state = Inactive THEN 0 ELSE @])

\* the object after it delivered a result event: a final result ends the
\* listening of the pass, and acted counts the events of the pass that
\* handleRecognitionResult acted on
AfterResult(r, results) ==
    [r EXCEPT !.state = IF HasFinal(results) THEN "ending" ELSE @,
              !.acted = IF ActsOn(results) THEN @ + 1 ELSE @]

\* ------------------------------------------------------------------ Init
Init ==
    /\ apiKey \in BOOLEAN
    /\ hasRecognition \in BOOLEAN
    /\ speechSynthesis = [supported |-> TRUE, voices |-> PlatformVoices]
    /\ ai = FALSE
    /\ chat = NoChat
    /\ lifecycle = "rendered"
    /\ escaped = FALSE
    /\ conversation = << >>
    /\ selectedLanguage = SUPPORTED_LANGUAGES[1]
    /\ isRecording = FALSE
    /\ isProcessing = FALSE
    /\ error = NullError
    /\ docLang = ""
    /\ docDir = ""
    /\ recognitionRef = NoRecognizer
    /\ orphans = EmptyBag
    /\ timers = 0
    /\ pending = << >>
    /\ last = Last("init", "", "")
    /\ spoke = NotSpoken

\* --------------------------------------------------------------- effects
\* the effects without setConversation([])
EffectsKeepLog(language) ==
    /\ docLang' = PrimarySubtag(language.code)
    /\ docDir' = language.dir
    /\ IF getAIThrows
       THEN /\ escaped' = TRUE
            /\ lifecycle' = "unmounted"
            /\ UNCHANGED << ai, chat, conversation, error, recognitionRef, orphans >>
       ELSE /\ ai' = TRUE
            /\ chat' = NewChat(language.name)
            /\ UNCHANGED conversation
            /\ setupRecognition(language, error)
            /\ lifecycle' = "mounted"
            /\ UNCHANGED escaped

\* useEffect[selectedLanguage] followed by useEffect[setupRecognition], run
\* after the render in which selectedLanguage is the given language.  An
\* exception thrown by an effect unmounts the component tree.
Effects(language) ==
    /\ docLang' = PrimarySubtag(language.code)
    /\ docDir' = language.dir
    /\ IF getAIThrows
       THEN /\ escaped' = TRUE
            /\ lifecycle' = "unmounted"
            /\ UNCHANGED << ai, chat, conversation, error, recognitionRef, orphans >>
       ELSE /\ ai' = TRUE
            /\ chat' = NewChat(language.name)
            /\ conversation' = << >>
            /\ setupRecognition(language, error)
            /\ lifecycle' = "mounted"
            /\ UNCHANGED escaped

Mount ==
    /\ lifecycle = "rendered"
    /\ Effects(selectedLanguage)
    /\ last' = Last("mount", "", "")
    /\ spoke' = NotSpoken
    /\ UNCHANGED << apiKey, hasRecognition, speechSynthesis, selectedLanguage, isRecording,
                    isProcessing, timers, pending >>

\* the language select's onChange, which fires when the selected option changes
LanguageSelect(language) ==
    /\ lifecycle = "mounted"
    /\ language # selectedLanguage
    /\ hasRecognition => CanCreate
    /\ selectedLanguage' = language
    /\ Effects(language)
    /\ last' = Last("select", "", "")
    /\ spoke' = NotSpoken
    /\ UNCHANGED << apiKey, hasRecognition, speechSynthesis, isRecording, isProcessing, timers, pending >>

handleClearConversation ==
    /\ lifecycle = "mounted"
    /\ conversation' = << >>
    /\ IF getAIThrows
       THEN escaped' = TRUE /\ UNCHANGED << ai, chat >>
       ELSE ai' = TRUE /\ chat' = NewChat(selectedLanguage.name) /\ UNCHANGED escaped
    /\ last' = Last("clear", "", "")
    /\ spoke' = NotSpoken
    /\ UNCHANGED << apiKey, hasRecognition, speechSynthesis, lifecycle, selectedLanguage, isRecording,
                    isProcessing, error, docLang, docDir, recognitionRef, orphans,
                    timers, pending >>

\* ------------------------------------------------------------ recording
\* the record button, which is disabled while isProcessing
handleRecordClick ==
    /\ lifecycle = "mounted"
    /\ ~isProcessing
    /\ IF isRecording
       THEN /\ recognitionRef' = AfterStop(recognitionRef)
            /\ isRecording' = FALSE
            /\ last' = Last("click", "stop", "")
            /\ UNCHANGED << error, orphans, timers >>
       ELSE IF ~StartThrows
       THEN /\ recognitionRef' = AfterStart(recognitionRef)
            /\ isRecording' = TRUE
            /\ error' = NullError
            /\ last' = Last("click", "start", "")
            /\ UNCHANGED << orphans, timers >>
       ELSE /\ CanCreate
            /\ timers < MaxTimers
            /\ setupRecognition(selectedLanguage, error)
            /\ timers' = timers + 1
            /\ last' = Last("click", "throw", "")
            /\ UNCHANGED isRecording
    /\ spoke' = NotSpoken
    /\ UNCHANGED << apiKey, hasRecognition, speechSynthesis, ai, chat, lifecycle, escaped, conversation,
                    selectedLanguage, isProcessing, docLang, docDir, pending >>

\* the callback handleRecordClick passes to setTimeout
RetryTimer ==
    /\ timers > 0
    /\ timers' = timers - 1
    /\ IF ~StartThrows
       THEN /\ recognitionRef' = AfterStart(recognitionRef)
            /\ isRecording' = TRUE
            /\ error' = NullError
            /\ last' = Last("timer", "", "ok")
       ELSE /\ error' = MicrophoneError
            /\ last' = Last("timer", "", "throw")
            /\ UNCHANGED << recognitionRef, isRecording >>
    /\ spoke' = NotSpoken
    /\ UNCHANGED << apiKey, hasRecognition, speechSynthesis, ai, chat, lifecycle, escaped, conversation,
                    selectedLanguage, isProcessing, docLang, docDir, orphans, pending >>

\* the recognizer delivers a result event to onresult = handleRecognitionResult,
\* which calls processAIResponse up to its await (or through its catch when
\* sendMessageToAI throws before awaiting).  A turn is sent only while the
\* bounded log has room for its message and for the reply of every outstanding
\* call, so that the bound never holds back a reply.
handleRecognitionResult(src, results) ==
    LET transcript == RunningTranscript(results)
        before == src.rec.state
    IN
    /\ before \in { "listening", "stopping" }
    /\ Becomes(src, AfterResult(src.rec, results))
    /\ IF ActsOn(results)
       THEN IF ~chat.live
            THEN /\ Len(conversation) + 2 <= MaxLog
                 /\ conversation' = conversation \o
                        << Message(USER, transcript), Message(MODEL, ControllerApology) >>
                 /\ error' = NotInitializedError
                 /\ isProcessing' = FALSE
                 /\ last' = Last("result", before, "rejected")
                 /\ UNCHANGED << chat, pending >>
            ELSE /\ Len(conversation) + Len(pending) + 2 <= MaxLog
                 /\ Len(pending) < MaxPending
                 /\ conversation' = AppendMessage(conversation, Message(USER, transcript))
                 /\ isProcessing' = TRUE
                 /\ error' = NullError
                 /\ pending' = Append(pending, [chat |-> chat.systemInstruction])
                 /\ chat' = SendOn(chat)
                 /\ last' = Last("result", before, "sent")
       ELSE /\ last' = Last("result", before, IF results[1].isFinal THEN "blank" ELSE "interim")
            /\ UNCHANGED << chat, conversation, isProcessing, error, pending >>
    /\ spoke' = NotSpoken
    /\ UNCHANGED << apiKey, hasRecognition, speechSynthesis, ai, lifecycle, escaped,
                    selectedLanguage, isRecording, docLang, docDir, timers >>

\* recognition.onend
onend(src) ==
    /\ Started(src.rec)
    /\ Moves(src, Inactive)
    /\ isRecording' = FALSE
    /\ last' = Last("end", "", "")
    /\ spoke' = NotSpoken
    /\ UNCHANGED << apiKey, hasRecognition, speechSynthesis, ai, chat, lifecycle, escaped, conversation,
                    selectedLanguage, isProcessing, error, docLang, docDir,
                    timers, pending >>

\* recognition.onerror
onerror(src, code) ==
    /\ src.rec.state \in { "listening", "stopping" }
    /\ Moves(src, "ending")
    /\ error' = RecognitionError(code)
    /\ isRecording' = FALSE
    /\ last' = Last("error", "", "")
    /\ spoke' = NotSpoken
    /\ UNCHANGED << apiKey, hasRecognition, speechSynthesis, ai, chat, lifecycle, escaped, conversation,
                    selectedLanguage, isProcessing, docLang, docDir, timers, pending >>

\* ----------------------------------------------------------------- chat
RemoveAt(seq, i) == SubSeq(seq, 1, i - 1) \o SubSeq(seq, i + 1, Len(seq))

\* processAIResponse after its await without the finally block
processAIResponseNoFinally(i, outcome, reply) ==
    LET aiText == sendMessageToAI(outcome, reply) IN
    /\ i \in 1..Len(pending)
    /\ Len(conversation) < MaxLog
    /\ pending' = RemoveAt(pending, i)
    /\ conversation' = AppendMessage(conversation, Message(MODEL, aiText))
    /\ spoke' = speak(aiText, ClosureLanguage)
    /\ last' = Last("resolve", "", outcome)
    /\ UNCHANGED << apiKey, hasRecognition, speechSynthesis, ai, chat, lifecycle, escaped,
                    selectedLanguage, isRecording, isProcessing, error, docLang,
                    docDir, recognitionRef, orphans, timers >>

\* chat.sendMessage of the i-th outstanding call settles and processAIResponse
\* continues after its await
processAIResponse(i, outcome, reply) ==
    LET aiText == sendMessageToAI(outcome, reply) IN
    /\ i \in 1..Len(pending)
    /\ Len(conversation) < MaxLog
    /\ pending' = RemoveAt(pending, i)
    /\ conversation' = AppendMessage(conversation, Message(MODEL, aiText))
    /\ spoke' = speak(aiText, ClosureLanguage)
    /\ isProcessing' = FALSE
    /\ last' = Last("resolve", "", outcome)
    /\ UNCHANGED << apiKey, hasRecognition, speechSynthesis, ai, chat, lifecycle, escaped,
                    selectedLanguage, isRecording, error, docLang, docDir,
                    recognitionRef, orphans, timers >>

\* ------------------------------------------------------------------ Next
Next ==
    \/ Mount
    \/ \E language \in LanguageOptions : LanguageSelect(language)
    \/ handleClearConversation
    \/ handleRecordClick
    \/ RetryTimer
    \/ \E src \in Sources, results \in ResultLists : handleRecognitionResult(src, results)
    \/ \E src \in Sources : onend(src)
    \/ \E src \in Sources, code \in ErrorCodes : onerror(src, code)
    \/ \E i \in 1..MaxPending, outcome \in { "ok", "fail" }, reply \in Replies :
          processAIResponse(i, outcome, reply)

Spec == Init /\ [][Next]_vars

\* some outstanding chat.sendMessage call settles
Resolve ==
    \E i \in 1..MaxPending, outcome \in { "ok", "fail" }, reply \in Replies :
        processAIResponse(i, outcome, reply)

\* the program with a provider that settles every call: the promise of
\* chat.sendMessage resolves or rejects, and the continuation of the await runs
FairSpec == Spec /\ WF_vars(Resolve)

\* ------------------------------------------------------------ one turn
\* the component mounted with the key and a recognizer, some language
\* selected, the log empty and the recognizer listening after a record click
TurnInit ==
    \E language \in LanguageOptions :
        /\ apiKey = TRUE
        /\ hasRecognition = TRUE
        /\ speechSynthesis = [supported |-> TRUE, voices |-> PlatformVoices]
        /\ ai = TRUE
        /\ chat = NewChat(language.name)
        /\ lifecycle = "mounted"
        /\ escaped = FALSE
        /\ conversation = << >>
        /\ selectedLanguage = language
        /\ isRecording = TRUE
        /\ isProcessing = FALSE
        /\ error = NullError
        /\ docLang = PrimarySubtag(language.code)
        /\ docDir = language.dir
        /\ recognitionRef = AfterStart(NewRecognizer(language))
        /\ orphans = EmptyBag
        /\ timers = 0
        /\ pending = << >>
        /\ last = [op |-> "click", state |-> "start", outcome |-> "", logBefore |-> 0]
        /\ spoke = NotSpoken

\* the handlers of a turn: result events, the end of a pass, the record
\* button, the settling of a call and the clear button
TurnNext ==
    \/ \E src \in Sources, results \in ResultLists : handleRecognitionResult(src, results)
    \/ \E src \in Sources : onend(src)
    \/ handleRecordClick
    \/ Resolve
    \/ handleClearConversation

\* the program from a listening recognizer on, every result event offered to
\* handleRecognitionResult
TurnSpec == TurnInit /\ [][TurnNext]_vars

\* ---------------------------------------------------------- speech output
\* the texts handed to speak
SpokenTexts == Replies \cup { ProviderApology }

\* the component mounted and idle with some language selected, on a platform
\* without speech synthesis or with any list of up to MaxVoices voices
VoiceInit ==
    \E language \in LanguageOptions :
        /\ apiKey = TRUE
        /\ hasRecognition = TRUE
        /\ speechSynthesis \in
               { [supported |-> FALSE, voices |-> << >>] } \cup
               { [supported |-> TRUE, voices |-> voices] : voices \in VoiceLists }
        /\ ai = TRUE
        /\ chat = NewChat(language.name)
        /\ lifecycle = "mounted"
        /\ escaped = FALSE
        /\ conversation = << >>
        /\ selectedLanguage = language
        /\ isRecording = FALSE
        /\ isProcessing = FALSE
        /\ error = NullError
        /\ docLang = PrimarySubtag(language.code)
        /\ docDir = language.dir
        /\ recognitionRef = NewRecognizer(language)
        /\ orphans = EmptyBag
        /\ timers = 0
        /\ pending = << >>
        /\ last = [op |-> "select", state |-> "", outcome |-> "", logBefore |-> 0]
        /\ spoke = NotSpoken

\* speak(text) of the render in which selectedLanguage is selected
Speak(text) ==
    /\ lifecycle = "mounted"
    /\ spoke' = speak(text, selectedLanguage)
    /\ last' = Last("speak", "", "")
    /\ UNCHANGED << apiKey, hasRecognition, speechSynthesis, ai, chat, lifecycle,
                    escaped, conversation, selectedLanguage, isRecording,
                    isProcessing, error, docLang, docDir, recognitionRef, orphans,
                    timers, pending >>

VoiceNext == \E text \in SpokenTexts : Speak(text)

\* speak applied to every text, language, and platform
VoiceSpec == VoiceInit /\ [][VoiceNext]_vars

\* ---------------------------------------------------------------- claims
LastMessage == conversation[Len(conversation)]
AllWhitespace(s) == \A i \in 1..Len(s) : s[i] \in Whitespace

\* C1: at most one sendMessageToAI call is outstanding at any instant.
C1_AtMostOneOutstanding == Len(pending) <= 1

\* C2: the conversation log is empty right after every language selection,
\* whatever the log held before.
C2_LogEmptyAfterSelection == last.op = "select" => conversation = << >>

C2_Witness ==
    /\ last.op = "select"
    /\ last.logBefore > 0
    /\ conversation = << >>
    /\ selectedLanguage = SUPPORTED_LANGUAGES[3]

\* C3: when the chat call of a turn fails, the step that handles the failure
\* appends the MODEL message "Sorry, I couldn't process that. Please try again.",
\* sets the inline error and does not invoke speech output.
C3_FailureAppendsApology ==
    (last.op = "resolve" /\ last.outcome = "fail") =>
        /\ Len(conversation) = last.logBefore + 1
        /\ LastMessage = Message(MODEL, ControllerApology)
        /\ error # NullError
        /\ ~spoke.invoked

\* C4: when a chat call resolves successfully, the step appends a MODEL message
\* with the reply and invokes speech output with the same text and the code of
\* the language that is selected at that moment.
C4_SpeaksSelectedLanguage ==
    (last.op = "resolve" /\ last.outcome = "ok") =>
        /\ Len(conversation) = last.logBefore + 1
        /\ LastMessage.role = MODEL
        /\ spoke.invoked
        /\ spoke.text = LastMessage.text
        /\ spoke.code = selectedLanguage.code

\* the result events whose first result is final and whose transcript is blank
BlankFinalResults ==
    { results \in ResultLists :
        results[1].isFinal /\ AllWhitespace(RunningTranscript(results)) }

\* C5: a result event whose first result is final and whose concatenated
\* transcript is empty or whitespace-only appends no message, makes no chat
\* call and does not enter PROCESSING; the pass can then only end, and the end
\* event sets isRecording to false.
C5_BlankFinalIgnored ==
    [][ /\ last'.op = "result" =>
             \A src \in Sources, results \in BlankFinalResults :
                 handleRecognitionResult(src, results)
                 => /\ conversation' = conversation
                    /\ pending' = pending
                    /\ isProcessing' = isProcessing
                    /\ src.current => recognitionRef'.state = "ending"
        /\ last'.op = "end" => ~isRecording'
      ]_vars

C5_Witness ==
    /\ last.op = "result"
    /\ last.outcome = "blank"
    /\ recognitionRef.state = "ending"
    /\ conversation = << >>
    /\ pending = << >>
    /\ ~isProcessing

\* C6: isRecording and isProcessing are never both true.
C6_OneRecordingState == ~(isRecording /\ isProcessing)

\* C7: without a speech-recognition capability isRecording stays false and the
\* "not supported" error stays visible, whatever is clicked.
C7_NoRecordingWithoutRecognition ==
    (lifecycle = "mounted" /\ ~hasRecognition) =>
        (~isRecording /\ error = NotSupportedError)

\* C8: the retry made after start() threw on a record click leaves the
\* microphone error set and isRecording false when it throws too, and
\* isRecording true with the error cleared when it succeeds.
C8_RetryOutcome ==
    /\ (last.op = "timer" /\ last.outcome = "throw") =>
           (error = MicrophoneError /\ ~isRecording)
    /\ (last.op = "timer" /\ last.outcome = "ok") =>
           (error = NullError /\ isRecording)

\* C9: no exception leaves a handler uncaught; with the API key absent the
\* mount, a language selection or a clear ends with an inline error set or a
\* log entry appended.
C9_NoFailureUnhandled ==
    /\ ~escaped
    /\ (~apiKey /\ last.op \in { "mount", "select", "clear" }) =>
           (error # NullError \/ conversation # << >>)

\* C10: a stop click, an end event and an error event leave isRecording false
\* and the log as it was, and no result of a recognizer that was told to stop
\* before its final result appends a USER message.
C10_StopCancelsPass ==
    /\ (last.op \in { "end", "error" } \/ (last.op = "click" /\ last.state = "stop")) =>
           (~isRecording /\ Len(conversation) = last.logBefore)
    /\ ~(last.op = "result" /\ last.state = "stopping" /\ last.outcome = "sent")

\* C11: while a chat call is outstanding isProcessing is true; a record click,
\* a language selection and a clear leave isProcessing as it was; isProcessing
\* falls only in the step that resolves a chat call.
C11_ProcessingWhileOutstanding ==
    [][ /\ pending' # << >> => isProcessing'
        /\ last'.op \in { "click", "select", "clear" } =>
               isProcessing' = isProcessing
        /\ (isProcessing /\ ~isProcessing') => last'.op = "resolve"
      ]_vars

\* C12: a clear leaves the log empty and chat a handle created for the name of
\* the selected language that was sent no message yet, and leaves the selected
\* language, the document's lang and dir, isRecording and isProcessing as they
\* were.
C12_ClearResetsLogAndChat ==
    [][ last'.op = "clear" =>
            /\ conversation' = << >>
            /\ chat'.live
            /\ chat'.systemInstruction = getSystemInstruction(selectedLanguage'.name)
            /\ chat'.turns = 0
            /\ selectedLanguage' = selectedLanguage
            /\ docLang' = docLang
            /\ docDir' = docDir
            /\ isRecording' = isRecording
            /\ isProcessing' = isProcessing
      ]_vars

C12_Witness ==
    /\ last.op = "clear"
    /\ last.logBefore > 0
    /\ conversation = << >>
    /\ chat = [live |-> TRUE, systemInstruction |-> << "You are Poly", "Francais" >>,
               turns |-> 0]
    /\ selectedLanguage = SUPPORTED_LANGUAGES[2]
    /\ isProcessing

\* C13: with the API key present and the component mounted, chat is a live
\* handle created with the instructions of the selected language, and a turn
\* that was just sent went to the session with the instructions of the language
\* selected at that moment.
C13_ChatFollowsLanguage ==
    /\ (apiKey /\ lifecycle = "mounted") =>
           /\ chat.live
           /\ chat.systemInstruction = << "You are Poly", selectedLanguage.name >>
    /\ (last.op = "result" /\ last.outcome = "sent") =>
           pending[Len(pending)].chat = << "You are Poly", selectedLanguage.name >>

C13_Witness ==
    /\ last.op = "result"
    /\ last.outcome = "sent"
    /\ selectedLanguage = SUPPORTED_LANGUAGES[3]
    /\ chat = [live |-> TRUE, systemInstruction |-> << "You are Poly", "Arabic" >>,
               turns |-> 1]
    /\ pending = << [chat |-> << "You are Poly", "Francais" >>],
                    [chat |-> << "You are Poly", "Arabic" >>] >>

\* C14: when every chat call settles, isProcessing true leads to isProcessing
\* false, and the step in which a call settles leaves isProcessing false with
\* exactly one message appended to the log, a MODEL message.
C14_ProcessingEnds ==
    /\ [](last.op = "resolve" =>
              /\ ~isProcessing
              /\ Len(conversation) = last.logBefore + 1
              /\ LastMessage.role = MODEL)
    /\ (isProcessing ~> ~isProcessing)

C14_Witness ==
    /\ last.op = "resolve"
    /\ last.outcome = "fail"
    /\ ~isProcessing
    /\ pending = << >>
    /\ conversation = << Message(USER, << "a" >>), Message(MODEL, ProviderApology) >>

CountRole(role, n) == Cardinality({ i \in 1..n : conversation[i].role = role })

\* C16: the log never holds a MODEL message that is not preceded by the USER
\* message of its own turn: every prefix of the log holds at least as many USER
\* messages as MODEL messages, so no reply of a turn sent before a language
\* switch or a clear is appended to the log that follows it.
C16_NoReplyOfEarlierTurn ==
    \A n \in 1..Len(conversation) : CountRole(MODEL, n) <= CountRole(USER, n)

\* the transcripts of the first n results one after the other
RECURSIVE Concatenation(_, _)
Concatenation(results, n) ==
    IF n = 0 THEN << >> ELSE Concatenation(results, n - 1) \o results[n].transcript

\* C17: for every result event the running transcript is the transcripts of all
\* its results concatenated in order with no separator, and the handler appends
\* one USER message with exactly that text when the first result is final and
\* the transcript is not all whitespace, and otherwise leaves the log as it
\* was, whatever the final flags of the later results are.
C17_UserMessageIsTranscript ==
    [][ \A src \in Sources, results \in ResultLists :
            handleRecognitionResult(src, results) =>
                LET text == Concatenation(results, Len(results)) IN
                IF results[1].isFinal /\ ~AllWhitespace(text)
                THEN conversation' = Append(conversation, Message(USER, text))
                ELSE conversation' = conversation
      ]_vars

C17_Witness ==
    /\ last.op = "result"
    /\ last.outcome = "sent"
    /\ last.logBefore = 1
    /\ Len(conversation) = 2
    /\ LastMessage = Message(USER, << "a", " " >>)
    /\ selectedLanguage = SUPPORTED_LANGUAGES[2]

\* C18: every step leaves the log unchanged, or appends exactly one message at
\* its end with the earlier entries untouched, or empties it; the USER message
\* of a turn is appended by the step that starts its chat call and the MODEL
\* message by the later step in which that call settles.
C18_LogOnlyGrowsOrClears ==
    [][ /\ \/ conversation' = conversation
           \/ conversation' = << >>
           \/ /\ Len(conversation') = Len(conversation) + 1
              /\ SubSeq(conversation', 1, Len(conversation)) = conversation
        /\ Len(pending') > Len(pending) =>
               /\ Len(conversation') = Len(conversation) + 1
               /\ conversation'[Len(conversation')].role = USER
        /\ Len(pending') < Len(pending) =>
               /\ Len(conversation') = Len(conversation) + 1
               /\ conversation'[Len(conversation')].role = MODEL
      ]_vars

C18_Witness ==
    /\ last.op = "resolve"
    /\ last.outcome = "ok"
    /\ pending = << >>
    /\ conversation = << Message(USER, << "a", "a" >>), Message(MODEL, << "Bonjour" >>) >>

\* C19: a recognizer object that can deliver results is the one recognitionRef
\* holds and has the code of the selected language; no object recognitionRef
\* dropped can deliver results, and after a stop click no object is listening.
C19_ListeningIsCurrent ==
    /\ \A src \in Sources :
           src.rec.state \in { "listening", "stopping" } =>
               (src.current /\ src.rec.lang = selectedLanguage.code)
    /\ (last.op = "click" /\ last.state = "stop") =>
           \A src \in Sources : src.rec.state # "listening"

\* the least index of a set of indices
FirstOf(indices) == CHOOSE i \in indices : \A j \in indices : i <= j

\* C20: on a platform with speech synthesis speak sets the first voice whose
\* locale equals the selected code; if there is none, the first voice whose
\* locale string starts with the primary subtag of the code; if there is none,
\* no voice.  On a platform without speech synthesis speak hands over no
\* utterance and raises no error.
C20_VoiceChoice ==
    last.op = "speak" =>
        IF ~speechSynthesis.supported
        THEN spoke = NotSpoken /\ ~escaped /\ error = NullError
        ELSE LET voices == speechSynthesis.voices
                 code == selectedLanguage.code
                 exact == { i \in 1..Len(voices) : voices[i] = code }
                 prefixed == { i \in 1..Len(voices) :
                                 startsWith(LocaleString(voices[i]), Spell[code[1]]) }
             IN  /\ spoke.invoked
                 /\ spoke.code = code
                 /\ spoke.voice = IF exact # { } THEN FirstOf(exact)
                                  ELSE IF prefixed # { } THEN FirstOf(prefixed)
                                  ELSE 0

C20_Witness ==
    /\ last.op = "speak"
    /\ selectedLanguage = SUPPORTED_LANGUAGES[1]
    /\ speechSynthesis.voices = << << "en", "GB" >>, << "en", "US" >>, << "en", "US" >> >>
    /\ spoke.voice = 2

=============================================================================
